---- MODULE Spec2Model ----
(***************************************************************************)
(* Yearly statistics and posting-location aggregation of the MediaCrawler  *)
(* data scripts: data/statistics.py (video + basic microblog) and          *)
(* data/statistics_only_weibo.py (extended microblog).                     *)
(*                                                                         *)
(* Text is modelled as a sequence of characters.  A printable ASCII        *)
(* character, the tab, the line feed, the form feed and the carriage       *)
(* return are one-character strings; any other character is written as its *)
(* code point, "U+53D1" for the first character of the marker phrase.      *)
(***************************************************************************)
EXTENDS Integers, Sequences, FiniteSets, TLC

VARIABLES
  prog,        \* the pipeline that is run: "douyin", "weibo" or "ip"
  tz,          \* the local time zone of the process
  corpus,      \* the kind of microblog file the yearly passes are run on
  eof,         \* the input has been read to its end
  data,        \* the elements of the video array iterated so far
  d_stats,     \* yearly_stats of process_data
  d_exc,       \* the exception that left process_data, or "none"
  d_ret,       \* what process_data returned to main
  d_csv,       \* the video CSV
  lines,       \* the lines of the microblog file read so far
  b_stats,     \* yearly_post_count of the basic process_weibo_jsonl
  b_exc,       \* the exception that left the basic pass, or "none"
  b_csv,       \* the CSV of the basic pass
  e_stats,     \* yearly_stats of the extended process_weibo_jsonl
  e_exc,       \* the exception that left the extended pass, or "none"
  e_csv,       \* the CSV of the extended pass
  ip_counter,  \* ip_counter of extract_ip_locations_and_plot_map
  ip_exc,      \* the exception that left the location pass, or "none"
  ip_out,      \* "none", "skipped" (no data) or "rendered"
  p_src,       \* reordering: the aggregation compared
  p_input,     \* reordering: the input
  p_perm,      \* reordering: the permutation applied to it
  p_pc,        \* reordering: "start", "original", "both"
  p_outA,      \* reordering: outcome on the input
  p_outB       \* reordering: outcome on the permuted input

vars ==
  <<prog, tz, corpus, eof, data, d_stats, d_exc, d_ret, d_csv, lines, b_stats, b_exc,
    b_csv, e_stats, e_exc, e_csv, ip_counter, ip_exc, ip_out, p_src, p_input,
    p_perm, p_pc, p_outA, p_outB>>

-----------------------------------------------------------------------------
(* Bounds of the model *)

\* longest video array explored
MaxItems == 2
\* longest microblog file explored by the yearly passes
MaxLines == 3
\* longest microblog file explored by the location pass
MaxIpLines == 3
\* longest input explored when comparing an input with its reorderings
MaxPerm == 3

-----------------------------------------------------------------------------
(* Characters and text *)

\* the decimal digits of Unicode (category Nd), which int(), str.isdigit()
\* and the regex class \d accept: a row for each script, the digit of
\* value d at position d + 1
DecDigitRows ==
  <<
    <<"0", "1", "2", "3", "4", "5", "6", "7", "8", "9">>,
    <<"U+0660", "U+0661", "U+0662", "U+0663", "U+0664", "U+0665", "U+0666", "U+0667", "U+0668", "U+0669">>,
    <<"U+06F0", "U+06F1", "U+06F2", "U+06F3", "U+06F4", "U+06F5", "U+06F6", "U+06F7", "U+06F8", "U+06F9">>,
    <<"U+07C0", "U+07C1", "U+07C2", "U+07C3", "U+07C4", "U+07C5", "U+07C6", "U+07C7", "U+07C8", "U+07C9">>,
    <<"U+0966", "U+0967", "U+0968", "U+0969", "U+096A", "U+096B", "U+096C", "U+096D", "U+096E", "U+096F">>,
    <<"U+09E6", "U+09E7", "U+09E8", "U+09E9", "U+09EA", "U+09EB", "U+09EC", "U+09ED", "U+09EE", "U+09EF">>,
    <<"U+0A66", "U+0A67", "U+0A68", "U+0A69", "U+0A6A", "U+0A6B", "U+0A6C", "U+0A6D", "U+0A6E", "U+0A6F">>,
    <<"U+0AE6", "U+0AE7", "U+0AE8", "U+0AE9", "U+0AEA", "U+0AEB", "U+0AEC", "U+0AED", "U+0AEE", "U+0AEF">>,
    <<"U+0B66", "U+0B67", "U+0B68", "U+0B69", "U+0B6A", "U+0B6B", "U+0B6C", "U+0B6D", "U+0B6E", "U+0B6F">>,
    <<"U+0BE6", "U+0BE7", "U+0BE8", "U+0BE9", "U+0BEA", "U+0BEB", "U+0BEC", "U+0BED", "U+0BEE", "U+0BEF">>,
    <<"U+0C66", "U+0C67", "U+0C68", "U+0C69", "U+0C6A", "U+0C6B", "U+0C6C", "U+0C6D", "U+0C6E", "U+0C6F">>,
    <<"U+0CE6", "U+0CE7", "U+0CE8", "U+0CE9", "U+0CEA", "U+0CEB", "U+0CEC", "U+0CED", "U+0CEE", "U+0CEF">>,
    <<"U+0D66", "U+0D67", "U+0D68", "U+0D69", "U+0D6A", "U+0D6B", "U+0D6C", "U+0D6D", "U+0D6E", "U+0D6F">>,
    <<"U+0DE6", "U+0DE7", "U+0DE8", "U+0DE9", "U+0DEA", "U+0DEB", "U+0DEC", "U+0DED", "U+0DEE", "U+0DEF">>,
    <<"U+0E50", "U+0E51", "U+0E52", "U+0E53", "U+0E54", "U+0E55", "U+0E56", "U+0E57", "U+0E58", "U+0E59">>,
    <<"U+0ED0", "U+0ED1", "U+0ED2", "U+0ED3", "U+0ED4", "U+0ED5", "U+0ED6", "U+0ED7", "U+0ED8", "U+0ED9">>,
    <<"U+0F20", "U+0F21", "U+0F22", "U+0F23", "U+0F24", "U+0F25", "U+0F26", "U+0F27", "U+0F28", "U+0F29">>,
    <<"U+1040", "U+1041", "U+1042", "U+1043", "U+1044", "U+1045", "U+1046", "U+1047", "U+1048", "U+1049">>,
    <<"U+1090", "U+1091", "U+1092", "U+1093", "U+1094", "U+1095", "U+1096", "U+1097", "U+1098", "U+1099">>,
    <<"U+17E0", "U+17E1", "U+17E2", "U+17E3", "U+17E4", "U+17E5", "U+17E6", "U+17E7", "U+17E8", "U+17E9">>,
    <<"U+1810", "U+1811", "U+1812", "U+1813", "U+1814", "U+1815", "U+1816", "U+1817", "U+1818", "U+1819">>,
    <<"U+1946", "U+1947", "U+1948", "U+1949", "U+194A", "U+194B", "U+194C", "U+194D", "U+194E", "U+194F">>,
    <<"U+19D0", "U+19D1", "U+19D2", "U+19D3", "U+19D4", "U+19D5", "U+19D6", "U+19D7", "U+19D8", "U+19D9">>,
    <<"U+1A80", "U+1A81", "U+1A82", "U+1A83", "U+1A84", "U+1A85", "U+1A86", "U+1A87", "U+1A88", "U+1A89">>,
    <<"U+1A90", "U+1A91", "U+1A92", "U+1A93", "U+1A94", "U+1A95", "U+1A96", "U+1A97", "U+1A98", "U+1A99">>,
    <<"U+1B50", "U+1B51", "U+1B52", "U+1B53", "U+1B54", "U+1B55", "U+1B56", "U+1B57", "U+1B58", "U+1B59">>,
    <<"U+1BB0", "U+1BB1", "U+1BB2", "U+1BB3", "U+1BB4", "U+1BB5", "U+1BB6", "U+1BB7", "U+1BB8", "U+1BB9">>,
    <<"U+1C40", "U+1C41", "U+1C42", "U+1C43", "U+1C44", "U+1C45", "U+1C46", "U+1C47", "U+1C48", "U+1C49">>,
    <<"U+1C50", "U+1C51", "U+1C52", "U+1C53", "U+1C54", "U+1C55", "U+1C56", "U+1C57", "U+1C58", "U+1C59">>,
    <<"U+A620", "U+A621", "U+A622", "U+A623", "U+A624", "U+A625", "U+A626", "U+A627", "U+A628", "U+A629">>,
    <<"U+A8D0", "U+A8D1", "U+A8D2", "U+A8D3", "U+A8D4", "U+A8D5", "U+A8D6", "U+A8D7", "U+A8D8", "U+A8D9">>,
    <<"U+A900", "U+A901", "U+A902", "U+A903", "U+A904", "U+A905", "U+A906", "U+A907", "U+A908", "U+A909">>,
    <<"U+A9D0", "U+A9D1", "U+A9D2", "U+A9D3", "U+A9D4", "U+A9D5", "U+A9D6", "U+A9D7", "U+A9D8", "U+A9D9">>,
    <<"U+A9F0", "U+A9F1", "U+A9F2", "U+A9F3", "U+A9F4", "U+A9F5", "U+A9F6", "U+A9F7", "U+A9F8", "U+A9F9">>,
    <<"U+AA50", "U+AA51", "U+AA52", "U+AA53", "U+AA54", "U+AA55", "U+AA56", "U+AA57", "U+AA58", "U+AA59">>,
    <<"U+ABF0", "U+ABF1", "U+ABF2", "U+ABF3", "U+ABF4", "U+ABF5", "U+ABF6", "U+ABF7", "U+ABF8", "U+ABF9">>,
    <<"U+FF10", "U+FF11", "U+FF12", "U+FF13", "U+FF14", "U+FF15", "U+FF16", "U+FF17", "U+FF18", "U+FF19">>,
    <<"U+104A0", "U+104A1", "U+104A2", "U+104A3", "U+104A4", "U+104A5", "U+104A6", "U+104A7", "U+104A8", "U+104A9">>,
    <<"U+10D30", "U+10D31", "U+10D32", "U+10D33", "U+10D34", "U+10D35", "U+10D36", "U+10D37", "U+10D38", "U+10D39">>,
    <<"U+11066", "U+11067", "U+11068", "U+11069", "U+1106A", "U+1106B", "U+1106C", "U+1106D", "U+1106E", "U+1106F">>,
    <<"U+110F0", "U+110F1", "U+110F2", "U+110F3", "U+110F4", "U+110F5", "U+110F6", "U+110F7", "U+110F8", "U+110F9">>,
    <<"U+11136", "U+11137", "U+11138", "U+11139", "U+1113A", "U+1113B", "U+1113C", "U+1113D", "U+1113E", "U+1113F">>,
    <<"U+111D0", "U+111D1", "U+111D2", "U+111D3", "U+111D4", "U+111D5", "U+111D6", "U+111D7", "U+111D8", "U+111D9">>,
    <<"U+112F0", "U+112F1", "U+112F2", "U+112F3", "U+112F4", "U+112F5", "U+112F6", "U+112F7", "U+112F8", "U+112F9">>,
    <<"U+11450", "U+11451", "U+11452", "U+11453", "U+11454", "U+11455", "U+11456", "U+11457", "U+11458", "U+11459">>,
    <<"U+114D0", "U+114D1", "U+114D2", "U+114D3", "U+114D4", "U+114D5", "U+114D6", "U+114D7", "U+114D8", "U+114D9">>,
    <<"U+11650", "U+11651", "U+11652", "U+11653", "U+11654", "U+11655", "U+11656", "U+11657", "U+11658", "U+11659">>,
    <<"U+116C0", "U+116C1", "U+116C2", "U+116C3", "U+116C4", "U+116C5", "U+116C6", "U+116C7", "U+116C8", "U+116C9">>,
    <<"U+11730", "U+11731", "U+11732", "U+11733", "U+11734", "U+11735", "U+11736", "U+11737", "U+11738", "U+11739">>,
    <<"U+118E0", "U+118E1", "U+118E2", "U+118E3", "U+118E4", "U+118E5", "U+118E6", "U+118E7", "U+118E8", "U+118E9">>,
    <<"U+11950", "U+11951", "U+11952", "U+11953", "U+11954", "U+11955", "U+11956", "U+11957", "U+11958", "U+11959">>,
    <<"U+11C50", "U+11C51", "U+11C52", "U+11C53", "U+11C54", "U+11C55", "U+11C56", "U+11C57", "U+11C58", "U+11C59">>,
    <<"U+11D50", "U+11D51", "U+11D52", "U+11D53", "U+11D54", "U+11D55", "U+11D56", "U+11D57", "U+11D58", "U+11D59">>,
    <<"U+11DA0", "U+11DA1", "U+11DA2", "U+11DA3", "U+11DA4", "U+11DA5", "U+11DA6", "U+11DA7", "U+11DA8", "U+11DA9">>,
    <<"U+16A60", "U+16A61", "U+16A62", "U+16A63", "U+16A64", "U+16A65", "U+16A66", "U+16A67", "U+16A68", "U+16A69">>,
    <<"U+16AC0", "U+16AC1", "U+16AC2", "U+16AC3", "U+16AC4", "U+16AC5", "U+16AC6", "U+16AC7", "U+16AC8", "U+16AC9">>,
    <<"U+16B50", "U+16B51", "U+16B52", "U+16B53", "U+16B54", "U+16B55", "U+16B56", "U+16B57", "U+16B58", "U+16B59">>,
    <<"U+1D7CE", "U+1D7CF", "U+1D7D0", "U+1D7D1", "U+1D7D2", "U+1D7D3", "U+1D7D4", "U+1D7D5", "U+1D7D6", "U+1D7D7">>,
    <<"U+1D7D8", "U+1D7D9", "U+1D7DA", "U+1D7DB", "U+1D7DC", "U+1D7DD", "U+1D7DE", "U+1D7DF", "U+1D7E0", "U+1D7E1">>,
    <<"U+1D7E2", "U+1D7E3", "U+1D7E4", "U+1D7E5", "U+1D7E6", "U+1D7E7", "U+1D7E8", "U+1D7E9", "U+1D7EA", "U+1D7EB">>,
    <<"U+1D7EC", "U+1D7ED", "U+1D7EE", "U+1D7EF", "U+1D7F0", "U+1D7F1", "U+1D7F2", "U+1D7F3", "U+1D7F4", "U+1D7F5">>,
    <<"U+1D7F6", "U+1D7F7", "U+1D7F8", "U+1D7F9", "U+1D7FA", "U+1D7FB", "U+1D7FC", "U+1D7FD", "U+1D7FE", "U+1D7FF">>,
    <<"U+1E140", "U+1E141", "U+1E142", "U+1E143", "U+1E144", "U+1E145", "U+1E146", "U+1E147", "U+1E148", "U+1E149">>,
    <<"U+1E2F0", "U+1E2F1", "U+1E2F2", "U+1E2F3", "U+1E2F4", "U+1E2F5", "U+1E2F6", "U+1E2F7", "U+1E2F8", "U+1E2F9">>,
    <<"U+1E950", "U+1E951", "U+1E952", "U+1E953", "U+1E954", "U+1E955", "U+1E956", "U+1E957", "U+1E958", "U+1E959">>,
    <<"U+1FBF0", "U+1FBF1", "U+1FBF2", "U+1FBF3", "U+1FBF4", "U+1FBF5", "U+1FBF6", "U+1FBF7", "U+1FBF8", "U+1FBF9">>
  >>

DecDigits ==
  UNION {{DecDigitRows[r][k] : k \in 1..10} : r \in DOMAIN DecDigitRows}

\* the ASCII digits lo..hi: the regex class [lo-hi]
AsciiDigits(lo, hi) == {DecDigitRows[1][d + 1] : d \in lo..hi}

\* the characters str.isdigit() accepts and int() does not: digits that are
\* no decimal digits, such as SUPERSCRIPT TWO and CIRCLED DIGIT ONE
OtherDigits ==
  { "U+00B2", "U+00B3", "U+00B9", "U+1369", "U+136A", "U+136B", "U+136C",
    "U+136D", "U+136E", "U+136F", "U+1370", "U+1371", "U+19DA", "U+2070",
    "U+2074", "U+2075", "U+2076", "U+2077", "U+2078", "U+2079", "U+2080",
    "U+2081", "U+2082", "U+2083", "U+2084", "U+2085", "U+2086", "U+2087",
    "U+2088", "U+2089", "U+2460", "U+2461", "U+2462", "U+2463", "U+2464",
    "U+2465", "U+2466", "U+2467", "U+2468", "U+2474", "U+2475", "U+2476",
    "U+2477", "U+2478", "U+2479", "U+247A", "U+247B", "U+247C", "U+2488",
    "U+2489", "U+248A", "U+248B", "U+248C", "U+248D", "U+248E", "U+248F",
    "U+2490", "U+24EA", "U+24F5", "U+24F6", "U+24F7", "U+24F8", "U+24F9",
    "U+24FA", "U+24FB", "U+24FC", "U+24FD", "U+24FF", "U+2776", "U+2777",
    "U+2778", "U+2779", "U+277A", "U+277B", "U+277C", "U+277D", "U+277E",
    "U+2780", "U+2781", "U+2782", "U+2783", "U+2784", "U+2785", "U+2786",
    "U+2787", "U+2788", "U+278A", "U+278B", "U+278C", "U+278D", "U+278E",
    "U+278F", "U+2790", "U+2791", "U+2792", "U+10A40", "U+10A41",
    "U+10A42", "U+10A43", "U+10E60", "U+10E61", "U+10E62", "U+10E63",
    "U+10E64", "U+10E65", "U+10E66", "U+10E67", "U+10E68", "U+11052",
    "U+11053", "U+11054", "U+11055", "U+11056", "U+11057", "U+11058",
    "U+11059", "U+1105A", "U+1F100", "U+1F101", "U+1F102", "U+1F103",
    "U+1F104", "U+1F105", "U+1F106", "U+1F107", "U+1F108", "U+1F109",
    "U+1F10A" }

\* white space, as str.isspace(), str.strip() and the regex class \s see it
WhiteSpace ==
  { "\t", "\n", "U+000B", "\f", "\r", "U+001C", "U+001D", "U+001E",
    "U+001F", " ", "U+0085", "U+00A0", "U+1680", "U+2000", "U+2001",
    "U+2002", "U+2003", "U+2004", "U+2005", "U+2006", "U+2007", "U+2008",
    "U+2009", "U+200A", "U+2028", "U+2029", "U+202F", "U+205F", "U+3000" }

\* white space int() strips: the separators U+001C to U+001F are not part
\* of it
IntWhiteSpace == WhiteSpace \ {"U+001C", "U+001D", "U+001E", "U+001F"}

\* the value of each decimal digit
DigitValues ==
  [c \in DecDigits |->
     CHOOSE d \in 0..9 : \E r \in DOMAIN DecDigitRows : DecDigitRows[r][d + 1] = c]

DigitVal(c) == DigitValues[c]

AllIn(s, S) == \A i \in 1..Len(s) : s[i] \in S

\* the value of two runs of decimal digits written one after the other,
\* the second of k digits: zeros at the start add nothing
JoinDigits(left, right, k) == IF left = 0 THEN right ELSE left * 10^k + right

\* value of the decimal digits s[lo] to s[hi], by halves
RECURSIVE DigitsValue(_, _, _)
DigitsValue(s, lo, hi) ==
  IF hi < lo THEN 0
  ELSE IF hi = lo THEN DigitVal(s[lo])
  ELSE JoinDigits(DigitsValue(s, lo, (lo + hi) \div 2),
                  DigitsValue(s, (lo + hi) \div 2 + 1, hi),
                  hi - (lo + hi) \div 2)

\* value of a non-empty run of decimal digits
DigitsToInt(s) == DigitsValue(s, 1, Len(s))

\* s.replace(c, '')
str_remove(s, c) == SelectSeq(s, LAMBDA x : x # c)

\* the characters str.isdigit() accepts
DigitChars == DecDigits \cup OtherDigits

\* s.isdigit()
str_isdigit(s) == Len(s) > 0 /\ AllIn(s, DigitChars)

\* s without the characters of W at its start, at its end, at both
RECURSIVE str_lstrip(_, _)
str_lstrip(s, W) ==
  IF Len(s) > 0 /\ Head(s) \in W THEN str_lstrip(Tail(s), W) ELSE s

RECURSIVE str_rstrip(_, _)
str_rstrip(s, W) ==
  IF Len(s) > 0 /\ s[Len(s)] \in W
  THEN str_rstrip(SubSeq(s, 1, Len(s) - 1), W) ELSE s

str_strip(s, W) == str_rstrip(str_lstrip(s, W), W)

-----------------------------------------------------------------------------
(* Decoded JSON values.  Every value carries the same three fields so that *)
(* values of different types can be compared.                              *)

Absent == [t |-> "absent", n |-> 0, s |-> <<>>]
JNull == [t |-> "null", n |-> 0, s |-> <<>>]
JInt(i) == [t |-> "int", n |-> i, s |-> <<>>]
JBool(b) == [t |-> "bool", n |-> IF b THEN 1 ELSE 0, s |-> <<>>]
\* a float, given in tenths: JFloat(25) is 2.5
JFloat(tenths) == [t |-> "float", n |-> tenths, s |-> <<>>]
\* the floats json.loads makes of Infinity, -Infinity and NaN
JInf == [t |-> "inf", n |-> 1, s |-> <<>>]
JNegInf == [t |-> "inf", n |-> 0 - 1, s |-> <<>>]
JNan == [t |-> "nan", n |-> 0, s |-> <<>>]
JStr(chars) == [t |-> "str", n |-> 0, s |-> chars]

\* the outcome of an expression: a value, or the exception it raised
Ok(v) == [exc |-> "none", v |-> v]
Raise(e) == [exc |-> e, v |-> 0]

\* dict.get(key, default) on a decoded object
dict_get(rec, key, default) == IF rec[key].t = "absent" THEN default ELSE rec[key]

\* isinstance(v, str)
IsStr(v) == v.t = "str"

\* isinstance(v, int): bool is a subclass of int
IsInt(v) == v.t \in {"int", "bool"}

\* truth value of a value, as tested by `not date_str`
Truthy(v) ==
  CASE v.t = "str" -> Len(v.s) > 0
    [] v.t \in {"int", "bool", "float"} -> v.n # 0
    [] v.t \in {"inf", "nan"} -> TRUE
    [] OTHER -> FALSE

-----------------------------------------------------------------------------
(* int(x), as applied to the video engagement fields *)

\* the characters of the digits part of an integer literal
IntBodyChars == DecDigits \cup {"_"}

\* the digits part of an integer literal: digits, single underscores between
IntBodyOk(b) ==
  /\ Len(b) > 0
  /\ AllIn(b, IntBodyChars)
  /\ b[1] # "_"
  /\ b[Len(b)] # "_"
  /\ \A i \in 1..(Len(b) - 1) : ~(b[i] = "_" /\ b[i + 1] = "_")

\* sys.get_int_max_str_digits(): the most digits int() converts
IntMaxStrDigits == 4300

\* the number of digits of the digits part of an integer literal
DigitCount(b) == Cardinality({i \in 1..Len(b) : b[i] # "_"})

\* int(s) for a string s: white space stripped, an optional sign, digits,
\* and no more digits than the interpreter converts
int_of_str(s) ==
  LET t == str_strip(s, IntWhiteSpace)
      signed == Len(t) > 0 /\ t[1] \in {"+", "-"}
      body == IF signed THEN Tail(t) ELSE t
      mag == DigitsToInt(str_remove(body, "_"))
  IN  IF ~IntBodyOk(body) THEN Raise("ValueError")
      ELSE IF DigitCount(body) > IntMaxStrDigits THEN Raise("ValueError")
      ELSE IF signed /\ t[1] = "-" THEN Ok(0 - mag)
      ELSE Ok(mag)

\* int(x): a float is truncated towards zero, an infinity is an
\* OverflowError, NaN a ValueError, None a TypeError
py_int(x) ==
  CASE x.t \in {"int", "bool"} -> Ok(x.n)
    [] x.t = "float" -> Ok(IF x.n >= 0 THEN x.n \div 10 ELSE 0 - ((0 - x.n) \div 10))
    [] x.t = "inf" -> Raise("OverflowError")
    [] x.t = "nan" -> Raise("ValueError")
    [] x.t = "str" -> int_of_str(x.s)
    [] OTHER -> Raise("TypeError")

-----------------------------------------------------------------------------
(* Timestamps *)

IsLeap(y) == (y % 4 = 0 /\ y % 100 # 0) \/ y % 400 = 0

DaysInYear(y) == IF IsLeap(y) THEN 366 ELSE 365

DaysInMonth(y, m) ==
  CASE m \in {1, 3, 5, 7, 8, 10, 12} -> 31
    [] m \in {4, 6, 9, 11} -> 30
    [] OTHER -> IF IsLeap(y) THEN 29 ELSE 28

\* number of consecutive white-space characters of s from position p on
RECURSIVE SpaceRunLen(_, _)
SpaceRunLen(s, p) ==
  IF p <= Len(s) /\ s[p] \in WhiteSpace THEN 1 + SpaceRunLen(s, p + 1) ELSE 0

\* The pattern strptime compiles "%Y-%m-%d %H:%M:%S" to is
\*   (\d\d\d\d)-(1[0-2]|0[1-9]|[1-9])-(3[0-1]|[1-2]\d|0[1-9]|[1-9]| [1-9])
\*   \s+(2[0-3]|[0-1]\d|\d):([0-5]\d|\d):(6[0-1]|[0-5]\d|\d)
\* A field is the sequence of its alternatives, in the order the regex
\* engine tries them; an alternative is a class of characters for each of
\* its positions.  \d is every decimal digit, a range only ASCII digits.
YearAlts == << <<DecDigits, DecDigits, DecDigits, DecDigits>> >>

MonthAlts ==
  << <<{"1"}, AsciiDigits(0, 2)>>, <<{"0"}, AsciiDigits(1, 9)>>,
     <<AsciiDigits(1, 9)>> >>

DayAlts ==
  << <<{"3"}, AsciiDigits(0, 1)>>, <<AsciiDigits(1, 2), DecDigits>>,
     <<{"0"}, AsciiDigits(1, 9)>>, <<AsciiDigits(1, 9)>>,
     <<{" "}, AsciiDigits(1, 9)>> >>

HourAlts ==
  << <<{"2"}, AsciiDigits(0, 3)>>, <<AsciiDigits(0, 1), DecDigits>>,
     <<DecDigits>> >>

MinuteAlts == << <<AsciiDigits(0, 5), DecDigits>>, <<DecDigits>> >>

SecondAlts ==
  << <<{"6"}, AsciiDigits(0, 1)>>, <<AsciiDigits(0, 5), DecDigits>>,
     <<DecDigits>> >>

\* the alternative alt matches s at position p
AltMatches(s, p, alt) ==
  /\ p + Len(alt) - 1 <= Len(s)
  /\ \A i \in 1..Len(alt) : s[p + i - 1] \in alt[i]

\* what the pattern has after a field stands at position q: a character of
\* follow; the last field of the pattern has nothing after it (follow = {})
Followed(s, q, follow) == follow = {} \/ (q <= Len(s) /\ s[q] \in follow)

\* the group a field matches at position p: the first alternative that
\* matches there and lets the pattern go on, and int() of its text
MatchField(s, p, alts, follow) ==
  LET fit == {i \in DOMAIN alts :
                AltMatches(s, p, alts[i]) /\ Followed(s, p + Len(alts[i]), follow)}
      first == CHOOSE i \in fit : \A j \in fit : i <= j
  IN  IF fit = {} THEN [ok |-> FALSE, len |-> 0, val |-> 0]
      ELSE [ok |-> TRUE, len |-> Len(alts[first]),
            val |-> int_of_str(SubSeq(s, p, p + Len(alts[first]) - 1)).v]

\* datetime(year, month, day, ..., second): the range checks of the constructor
datetime_year(year, month, day, second) ==
  IF year < 1 \/ day > DaysInMonth(year, month) \/ second > 59
  THEN Raise("ValueError")
  ELSE Ok(year)

\* %S, which has to end the text
SecondMatched(s, p, year, month, day, f) ==
  IF f.ok /\ p + f.len - 1 = Len(s)
  THEN datetime_year(year, month, day, f.val)
  ELSE Raise("ValueError")

ParseSecond(s, p, year, month, day) ==
  SecondMatched(s, p, year, month, day, MatchField(s, p, SecondAlts, {}))

\* %M and the colon after it
MinuteMatched(s, p, year, month, day, f) ==
  IF f.ok THEN ParseSecond(s, p + f.len + 1, year, month, day)
  ELSE Raise("ValueError")

ParseMinute(s, p, year, month, day) ==
  MinuteMatched(s, p, year, month, day, MatchField(s, p, MinuteAlts, {":"}))

\* %H and the colon after it
HourMatched(s, p, year, month, day, f) ==
  IF f.ok THEN ParseMinute(s, p + f.len + 1, year, month, day)
  ELSE Raise("ValueError")

ParseHour(s, p, year, month, day) ==
  HourMatched(s, p, year, month, day, MatchField(s, p, HourAlts, {":"}))

\* %d and the white space after it (at least one character)
DayMatched(s, p, year, month, f) ==
  IF f.ok
  THEN ParseHour(s, p + f.len + SpaceRunLen(s, p + f.len), year, month, f.val)
  ELSE Raise("ValueError")

ParseDay(s, p, year, month) ==
  DayMatched(s, p, year, month, MatchField(s, p, DayAlts, WhiteSpace))

\* %m and the hyphen after it
MonthMatched(s, p, year, f) ==
  IF f.ok THEN ParseDay(s, p + f.len + 1, year, f.val)
  ELSE Raise("ValueError")

ParseMonth(s, p, year) ==
  MonthMatched(s, p, year, MatchField(s, p, MonthAlts, {"-"}))

\* %Y and the hyphen after it
YearMatched(s, f) ==
  IF f.ok THEN ParseMonth(s, f.len + 2, f.val) ELSE Raise("ValueError")

\* datetime.strptime(s, "%Y-%m-%d %H:%M:%S").year
strptime_year(s) == YearMatched(s, MatchField(s, 1, YearAlts, {"-"}))

\* datetime.strptime(date_str, ...).year for any decoded value
strptime(date_str) ==
  IF IsStr(date_str) THEN strptime_year(date_str.s) ELSE Raise("TypeError")

\* the calendar year that holds day d, counted from 1 January of year y
RECURSIVE YearFromDays(_, _)
YearFromDays(d, y) ==
  IF d < 0 THEN YearFromDays(d + DaysInYear(y - 1), y - 1)
  ELSE IF d >= DaysInYear(y) THEN YearFromDays(d - DaysInYear(y), y + 1)
  ELSE y

\* a local time zone: its offset east of UTC in seconds, and whether the C
\* library takes it from rules written in TZ (as in TZ=EST5) and not from
\* a tz file (as in TZ=Etc/GMT+5); the offset is the one in force at the
\* time converted
Zone(off, rules) == [off |-> off, rules |-> rules]

\* the day UTC has sec seconds after the epoch and the day local time has
\* then, both counted from 1 January 1970, and the year of a day
UtcDay(sec) == sec \div 86400

LocalDay(sec, zone) == (sec + zone.off) \div 86400

YearOfDay(day) == YearFromDays(day, 1970)

\* sec fits the 64 bits of time_t: floor(sec / 2^63) is -1 or 0
InTimeT(sec) == ((sec \div (2^30)) \div (2^30)) \div 8 \in {0 - 1, 0}

\* the year fits struct tm, where it is a C int counted from 1900
InStructTm(year) == year - 1900 >= 0 - 2147483647 - 1 /\ year - 1900 <= 2147483647

\* localtime() fails: the local year does not fit struct tm, or the zone is
\* given by rules, for which the C library first breaks the time down in
\* UTC, and the year of UTC does not fit
LocalTimeFails(sec, zone) ==
  \/ (zone.rules /\ ~InStructTm(YearOfDay(UtcDay(sec))))
  \/ ~InStructTm(YearOfDay(LocalDay(sec, zone)))

\* datetime.fromtimestamp of a whole number of seconds: the conversion to
\* time_t, localtime(), the years datetime has, and the look a day back by
\* which fromtimestamp detects a repeated hour
LocalYearOfSeconds(sec, zone) ==
  IF ~InTimeT(sec) THEN Raise("OverflowError")
  ELSE IF LocalTimeFails(sec, zone) THEN Raise("OSError")
  ELSE IF YearOfDay(LocalDay(sec, zone)) < 1 \/ YearOfDay(LocalDay(sec, zone)) > 9999
          \/ YearOfDay(LocalDay(sec, zone) - 1) < 1
  THEN Raise("ValueError")
  ELSE Ok(YearOfDay(LocalDay(sec, zone)))

\* datetime.fromtimestamp(t).year in a process whose local time zone is
\* zone
fromtimestamp(t, zone) ==
  CASE t.t \in {"int", "bool"} -> LocalYearOfSeconds(t.n, zone)
    [] t.t = "float" -> LocalYearOfSeconds(t.n \div 10, zone)
    [] t.t = "inf" -> Raise("OverflowError")
    [] t.t = "nan" -> Raise("ValueError")
    [] OTHER -> Raise("TypeError")

-----------------------------------------------------------------------------
(* Yearly tables *)

\* an empty dict
EmptyTable == <<>>

\* the entry a year gets when it is first seen
VideoZero ==
  [post_count |-> 0, total_likes |-> 0, total_collections |-> 0,
   total_comments |-> 0, total_shares |-> 0]

ExtZero == [post_count |-> 0, reads_count |-> 0]

\* mutant: the entry of a year is set up again for every record
EnsureYearReset(tbl, year, zero) ==
  IF year \in DOMAIN tbl THEN [tbl EXCEPT ![year] = zero] ELSE tbl @@ (year :> zero)

\* `if year not in table: table[year] = zero`
EnsureYear(tbl, year, zero) ==
  IF year \in DOMAIN tbl THEN tbl ELSE tbl @@ (year :> zero)

\* the result of a loop body: the exception that leaves it ("none" when the
\* loop goes on to the next record) and the table as the body left it
Step(e, tbl) == [exc |-> e, stats |-> tbl]

-----------------------------------------------------------------------------
(* process_data: the video aggregation *)

\* mutant: a field int() rejects counts as 0
AddEngagementLenient(res, year, item, key, column) ==
  IF res.exc # "none" THEN res
  ELSE LET c == py_int(dict_get(item, key, JInt(0)))
       IN  IF c.exc # "none" THEN res
           ELSE Step("none", [res.stats EXCEPT ![year][column] = @ + c.v])

\* `yearly_stats[year][column] += int(item.get(key, 0))`
AddEngagement(res, year, item, key, column) ==
  IF res.exc # "none" THEN res
  ELSE LET c == py_int(dict_get(item, key, JInt(0)))
       IN  IF c.exc # "none" THEN Step(c.exc, res.stats)
           ELSE Step("none", [res.stats EXCEPT ![year][column] = @ + c.v])

\* `yearly_stats[year]['post_count'] += 1`
CountVideo(tbl, year) == [tbl EXCEPT ![year].post_count = @ + 1]

\* item['create_time'] and its conversion to a year
VideoYear(item, zone) ==
  IF ~item.isdict THEN Raise("TypeError")
  ELSE IF item.create_time.t = "absent" THEN Raise("KeyError")
  ELSE fromtimestamp(item.create_time, zone)

\* one iteration of `for item in data`
ProcessItem(stats, item, zone) ==
  LET y == VideoYear(item, zone)
  IN  IF y.exc # "none" THEN Step(y.exc, stats)
      ELSE LET s0 == Step("none", CountVideo(EnsureYear(stats, y.v, VideoZero), y.v))
               s1 == AddEngagement(s0, y.v, item, "liked_count", "total_likes")
               s2 == AddEngagement(s1, y.v, item, "collected_count", "total_collections")
               s3 == AddEngagement(s2, y.v, item, "comment_count", "total_comments")
           IN  AddEngagement(s3, y.v, item, "share_count", "total_shares")

-----------------------------------------------------------------------------
(* process_weibo_jsonl: the microblog aggregations *)

\* json.loads(line.strip()): a line is kept as what it decodes to.  The
\* decoder also gives up, with exceptions that are no JSONDecodeError, on
\* an integer of more digits than int() converts and on nesting deeper
\* than the interpreter's stack
json_loads(line) ==
  CASE line.json = "invalid" -> Raise("JSONDecodeError")
    [] line.json = "digits_limit" -> Raise("ValueError")
    [] line.json = "too_deep" -> Raise("RecursionError")
    [] OTHER -> Ok(0)

\* record.get(...) on what was decoded: only an object has .get
RecordGet(line, key, default) ==
  IF line.json # "object" THEN Raise("AttributeError")
  ELSE [exc |-> "none", v |-> dict_get(line.rec, key, default)]

\* the year of a record, or why it has none: "skip" is the `continue` taken
\* for an empty created_at
WeiboYear(line) ==
  LET dec == json_loads(line)
      got == RecordGet(line, "created_at", JStr(<<>>))
  IN  IF dec.exc # "none" THEN Raise(dec.exc)
      ELSE IF got.exc # "none" THEN Raise(got.exc)
      ELSE IF ~Truthy(got.v) THEN Raise("skip")
      ELSE strptime(got.v)

\* `yearly_post_count[year] += 1` of the basic variant
CountPostBasic(tbl, year) ==
  LET t == EnsureYear(tbl, year, 0) IN [t EXCEPT ![year] = @ + 1]

\* the body of the try block of the basic variant
BasicTry(stats, line) ==
  LET y == WeiboYear(line)
  IN  IF y.exc # "none" THEN Step(y.exc, stats)
      ELSE Step("none", CountPostBasic(stats, y.v))

\* `except json.JSONDecodeError: continue`
BasicCatches(e) == e = "JSONDecodeError"

\* one iteration of `for line in f`, basic variant
BasicLine(stats, line) ==
  LET r == BasicTry(stats, line)
  IN  IF r.exc = "skip" \/ BasicCatches(r.exc) THEN Step("none", r.stats) ELSE r

\* the read count a record is missing
DefaultReads == 3000

\* the read count of a record, normalised
NormalizeReads(rec) ==
  LET reads == dict_get(rec, "reads_count", JInt(DefaultReads))
      bare == str_remove(reads.s, ",")
  IN  IF IsStr(reads) THEN (IF str_isdigit(bare) THEN int_of_str(bare) ELSE Ok(0))
      ELSE IF ~IsInt(reads) THEN Ok(0)
      ELSE Ok(reads.n)

\* `yearly_stats[year]['post_count'] += 1` of the extended variant
CountPostExt(tbl, year) ==
  LET t == EnsureYear(tbl, year, ExtZero) IN [t EXCEPT ![year].post_count = @ + 1]

\* mutant: `=` in place of `+=`
AddReadsOverwrite(tbl, year, reads) == [tbl EXCEPT ![year].reads_count = reads]

\* `yearly_stats[year]['reads_count'] += reads`
AddReads(tbl, year, reads) == [tbl EXCEPT ![year].reads_count = @ + reads]

\* mutant: the post is counted after its read count has been normalised
ExtTryCountLast(stats, line) ==
  LET y == WeiboYear(line)
  IN  IF y.exc # "none" THEN Step(y.exc, stats)
      ELSE LET reads == NormalizeReads(line.rec)
           IN  IF reads.exc # "none" THEN Step(reads.exc, EnsureYear(stats, y.v, ExtZero))
               ELSE Step("none", AddReads(CountPostExt(stats, y.v), y.v, reads.v))

\* the body of the try block of the extended variant
ExtTry(stats, line) ==
  LET y == WeiboYear(line)
  IN  IF y.exc # "none" THEN Step(y.exc, stats)
      ELSE LET counted == CountPostExt(stats, y.v)
               reads == NormalizeReads(line.rec)
           IN  IF reads.exc # "none" THEN Step(reads.exc, counted)
               ELSE Step("none", AddReads(counted, y.v, reads.v))

\* `except Exception: continue`: every exception the try block raises is one
ExtCatches(e) == e # "none"

\* one iteration of `for line in f`, extended variant
ExtLine(stats, line) ==
  LET r == ExtTry(stats, line)
  IN  IF r.exc = "skip" \/ ExtCatches(r.exc) THEN Step("none", r.stats) ELSE r

-----------------------------------------------------------------------------
(* CSV output *)

\* sorted(stats.keys())
RECURSIVE SortedSeq(_)
SortedSeq(S) ==
  IF S = {} THEN <<>>
  ELSE LET m == CHOOSE x \in S : \A y \in S : x <= y
       IN  <<m>> \o SortedSeq(S \ {m})

\* mutant: sorted(stats.keys(), reverse=True)
RECURSIVE SortedSeqDescending(_)
SortedSeqDescending(S) ==
  IF S = {} THEN <<>>
  ELSE LET m == CHOOSE x \in S : \A y \in S : x >= y
       IN  <<m>> \o SortedSeqDescending(S \ {m})

sorted_keys_reversed(stats) == SortedSeqDescending(DOMAIN stats)

sorted_keys(stats) == SortedSeq(DOMAIN stats)

\* the data rows save_to_csv writes
save_to_csv(stats) ==
  LET ys == sorted_keys(stats)
  IN  [i \in 1..Len(ys) |->
         <<ys[i], stats[ys[i]].post_count, stats[ys[i]].total_likes,
           stats[ys[i]].total_collections, stats[ys[i]].total_comments,
           stats[ys[i]].total_shares>>]

\* the data rows save_weibo_csv of statistics.py writes
save_weibo_csv_basic(stats) ==
  LET ys == sorted_keys(stats)
  IN  [i \in 1..Len(ys) |-> <<ys[i], stats[ys[i]]>>]

\* the data rows save_weibo_csv of statistics_only_weibo.py writes
save_weibo_csv_ext(stats) ==
  LET ys == sorted_keys(stats)
  IN  [i \in 1..Len(ys) |->
         <<ys[i], stats[ys[i]].post_count, stats[ys[i]].reads_count>>]

\* a file that was not written
NoCsv == [written |-> FALSE, rows |-> <<>>]

Csv(rows) == [written |-> TRUE, rows |-> rows]

-----------------------------------------------------------------------------
(* extract_ip_locations_and_plot_map: the location pass *)

\* the marker phrase of the pattern
Marker == <<"U+53D1", "U+5E03", "U+4E8E">>

CHINA_PROVINCES ==
  { <<"U+5317", "U+4EAC">>,
    <<"U+5929", "U+6D25">>,
    <<"U+4E0A", "U+6D77">>,
    <<"U+91CD", "U+5E86">>,
    <<"U+6CB3", "U+5317">>,
    <<"U+5C71", "U+897F">>,
    <<"U+8FBD", "U+5B81">>,
    <<"U+5409", "U+6797">>,
    <<"U+9ED1", "U+9F99", "U+6C5F">>,
    <<"U+6C5F", "U+82CF">>,
    <<"U+6D59", "U+6C5F">>,
    <<"U+5B89", "U+5FBD">>,
    <<"U+798F", "U+5EFA">>,
    <<"U+6C5F", "U+897F">>,
    <<"U+5C71", "U+4E1C">>,
    <<"U+6CB3", "U+5357">>,
    <<"U+6E56", "U+5317">>,
    <<"U+6E56", "U+5357">>,
    <<"U+5E7F", "U+4E1C">>,
    <<"U+6D77", "U+5357">>,
    <<"U+56DB", "U+5DDD">>,
    <<"U+8D35", "U+5DDE">>,
    <<"U+4E91", "U+5357">>,
    <<"U+9655", "U+897F">>,
    <<"U+7518", "U+8083">>,
    <<"U+9752", "U+6D77">>,
    <<"U+5185", "U+8499", "U+53E4">>,
    <<"U+5E7F", "U+897F">>,
    <<"U+897F", "U+85CF">>,
    <<"U+5B81", "U+590F">>,
    <<"U+65B0", "U+7586">>,
    <<"U+4E2D", "U+56FD", "U+9999", "U+6E2F">>,
    <<"U+4E2D", "U+56FD", "U+6FB3", "U+95E8">>,
    <<"U+4E2D", "U+56FD", "U+53F0", "U+6E7E">> }

CHINA_PROVINCES_MAP ==
  (<<"U+5317", "U+4EAC">> :> <<"U+5317", "U+4EAC", "U+5E02">>) @@
  (<<"U+5929", "U+6D25">> :> <<"U+5929", "U+6D25", "U+5E02">>) @@
  (<<"U+4E0A", "U+6D77">> :> <<"U+4E0A", "U+6D77", "U+5E02">>) @@
  (<<"U+91CD", "U+5E86">> :> <<"U+91CD", "U+5E86", "U+5E02">>) @@
  (<<"U+6CB3", "U+5317">> :> <<"U+6CB3", "U+5317", "U+7701">>) @@
  (<<"U+5C71", "U+897F">> :> <<"U+5C71", "U+897F", "U+7701">>) @@
  (<<"U+8FBD", "U+5B81">> :> <<"U+8FBD", "U+5B81", "U+7701">>) @@
  (<<"U+5409", "U+6797">> :> <<"U+5409", "U+6797", "U+7701">>) @@
  (<<"U+9ED1", "U+9F99", "U+6C5F">> :> <<"U+9ED1", "U+9F99", "U+6C5F", "U+7701">>) @@
  (<<"U+6C5F", "U+82CF">> :> <<"U+6C5F", "U+82CF", "U+7701">>) @@
  (<<"U+6D59", "U+6C5F">> :> <<"U+6D59", "U+6C5F", "U+7701">>) @@
  (<<"U+5B89", "U+5FBD">> :> <<"U+5B89", "U+5FBD", "U+7701">>) @@
  (<<"U+798F", "U+5EFA">> :> <<"U+798F", "U+5EFA", "U+7701">>) @@
  (<<"U+6C5F", "U+897F">> :> <<"U+6C5F", "U+897F", "U+7701">>) @@
  (<<"U+5C71", "U+4E1C">> :> <<"U+5C71", "U+4E1C", "U+7701">>) @@
  (<<"U+6CB3", "U+5357">> :> <<"U+6CB3", "U+5357">>) @@
  (<<"U+6E56", "U+5317">> :> <<"U+6E56", "U+5317", "U+7701">>) @@
  (<<"U+6E56", "U+5357">> :> <<"U+6E56", "U+5357", "U+7701">>) @@
  (<<"U+5E7F", "U+4E1C">> :> <<"U+5E7F", "U+4E1C", "U+7701">>) @@
  (<<"U+6D77", "U+5357">> :> <<"U+6D77", "U+5357", "U+7701">>) @@
  (<<"U+56DB", "U+5DDD">> :> <<"U+56DB", "U+5DDD", "U+7701">>) @@
  (<<"U+8D35", "U+5DDE">> :> <<"U+8D35", "U+5DDE", "U+7701">>) @@
  (<<"U+4E91", "U+5357">> :> <<"U+4E91", "U+5357", "U+7701">>) @@
  (<<"U+9655", "U+897F">> :> <<"U+9655", "U+897F", "U+7701">>) @@
  (<<"U+7518", "U+8083">> :> <<"U+7518", "U+8083", "U+7701">>) @@
  (<<"U+9752", "U+6D77">> :> <<"U+9752", "U+6D77", "U+7701">>) @@
  (<<"U+5185", "U+8499", "U+53E4">> :> <<"U+5185", "U+8499", "U+53E4", "U+81EA", "U+6CBB", "U+533A">>) @@
  (<<"U+5E7F", "U+897F">> :> <<"U+5E7F", "U+897F", "U+58EE", "U+65CF", "U+81EA", "U+6CBB", "U+533A">>) @@
  (<<"U+897F", "U+85CF">> :> <<"U+897F", "U+85CF", "U+81EA", "U+6CBB", "U+533A">>) @@
  (<<"U+5B81", "U+590F">> :> <<"U+5B81", "U+590F", "U+56DE", "U+65CF", "U+81EA", "U+6CBB", "U+533A">>) @@
  (<<"U+65B0", "U+7586">> :> <<"U+65B0", "U+7586", "U+7EF4", "U+543E", "U+5C14", "U+81EA", "U+6CBB", "U+533A">>) @@
  (<<"U+4E2D", "U+56FD", "U+9999", "U+6E2F">> :> <<"U+9999", "U+6E2F", "U+7279", "U+522B", "U+884C", "U+653F", "U+533A">>) @@
  (<<"U+4E2D", "U+56FD", "U+6FB3", "U+95E8">> :> <<"U+6FB3", "U+95E8", "U+7279", "U+522B", "U+884C", "U+653F", "U+533A">>) @@
  (<<"U+4E2D", "U+56FD", "U+53F0", "U+6E7E">> :> <<"U+53F0", "U+6E7E", "U+7701">>)

\* number of consecutive non-white-space characters of s from position p on
RECURSIVE TokenRunLen(_, _)
TokenRunLen(s, p) ==
  IF p <= Len(s) /\ s[p] \notin WhiteSpace THEN 1 + TokenRunLen(s, p + 1) ELSE 0

\* the pattern  marker \s* (\S+)  matches at position i
MatchesAt(s, i) ==
  /\ i + Len(Marker) - 1 <= Len(s)
  /\ SubSeq(s, i, i + Len(Marker) - 1) = Marker
  /\ i + Len(Marker) + SpaceRunLen(s, i + Len(Marker)) <= Len(s)

\* mutant: re.match, which looks for the pattern at the start only
re_match(s) ==
  IF MatchesAt(s, 1)
  THEN LET q == 1 + Len(Marker) + SpaceRunLen(s, 1 + Len(Marker))
       IN  [matched |-> TRUE, group1 |-> SubSeq(s, q, q + TokenRunLen(s, q) - 1)]
  ELSE [matched |-> FALSE, group1 |-> <<>>]

\* re.search(pattern, s): the leftmost match and its group 1
re_search(s) ==
  IF \E i \in 1..Len(s) : MatchesAt(s, i)
  THEN LET i == CHOOSE j \in 1..Len(s) :
                  MatchesAt(s, j) /\ \A k \in 1..(j - 1) : ~MatchesAt(s, k)
           q == i + Len(Marker) + SpaceRunLen(s, i + Len(Marker))
       IN  [matched |-> TRUE, group1 |-> SubSeq(s, q, q + TokenRunLen(s, q) - 1)]
  ELSE [matched |-> FALSE, group1 |-> <<>>]

\* mutant: the short name is used as the key
ShortNameKey(province) == province

\* CHINA_PROVINCES_MAP[province]
CanonicalName(province) == CHINA_PROVINCES_MAP[province]

\* `ip_counter[key] += 1` on a Counter
CounterInc(counter, key) ==
  IF key \in DOMAIN counter THEN [counter EXCEPT ![key] = @ + 1]
  ELSE counter @@ (key :> 1)

\* the body of the try block of the location pass
IpTry(counter, line) ==
  LET dec == json_loads(line)
      got == RecordGet(line, "ip_location", JStr(<<>>))
  IN  IF dec.exc # "none" THEN Step(dec.exc, counter)
      ELSE IF got.exc # "none" THEN Step(got.exc, counter)
      ELSE IF ~IsStr(got.v) THEN Step("none", counter)
      ELSE LET m == re_search(got.v.s)
           IN  IF m.matched /\ m.group1 \in CHINA_PROVINCES
               THEN Step("none", CounterInc(counter, CanonicalName(m.group1)))
               ELSE Step("none", counter)

\* `except json.JSONDecodeError: continue`
IpCatches(e) == e = "JSONDecodeError"

\* one iteration of `for line in f`, location pass
IpLine(counter, line) ==
  LET r == IpTry(counter, line)
  IN  IF IpCatches(r.exc) THEN Step("none", r.stats) ELSE r

-----------------------------------------------------------------------------
(* Inputs *)

\* a line of the microblog file: text that is not JSON, JSON that is not an
\* object, or an object with the fields the passes read
InvalidLine ==
  [json |-> "invalid",
   rec |-> [created_at |-> Absent, reads_count |-> Absent, ip_location |-> Absent]]

ValueLine ==
  [json |-> "value",
   rec |-> [created_at |-> Absent, reads_count |-> Absent, ip_location |-> Absent]]

\* JSON with an integer of more digits than int() converts (4300)
DigitsLimitLine ==
  [json |-> "digits_limit",
   rec |-> [created_at |-> Absent, reads_count |-> Absent, ip_location |-> Absent]]

\* JSON nested deeper than the interpreter's stack
TooDeepLine ==
  [json |-> "too_deep",
   rec |-> [created_at |-> Absent, reads_count |-> Absent, ip_location |-> Absent]]

ObjectLine(created, reads, ip) ==
  [json |-> "object",
   rec |-> [created_at |-> created, reads_count |-> reads, ip_location |-> ip]]

\* "2019-03-05 12:28:00": a well-formed time stamp of 2019
Date2019 ==
  <<"2", "0", "1", "9", "-", "0", "3", "-", "0", "5", " ", "1", "2", ":", "2", "8", ":", "0", "0">>

\* "2021-7-1 0:00:00": a time stamp of 2021 with one-digit fields
Date2021 ==
  <<"2", "0", "2", "1", "-", "7", "-", "1", " ", "0", ":", "0", "0", ":", "0", "0">>

\* "2019/03/05 12:28:00": not in the expected format
DateSlashes ==
  <<"2", "0", "1", "9", "/", "0", "3", "/", "0", "5", " ", "1", "2", ":", "2", "8", ":", "0", "0">>

\* "2021-02-30 10:00:00": in the expected format, but no calendar date
DateFeb30 ==
  <<"2", "0", "2", "1", "-", "0", "2", "-", "3", "0", " ", "1", "0", ":", "0", "0", ":", "0", "0">>

\* "2019-03-05 12:28:00" with the year in full-width digits and a line feed
\* for the blank
DateFullWidth ==
  <<"U+FF12", "U+FF10", "U+FF11", "U+FF19", "-", "0", "3", "-", "0", "5", "\n", "1", "2", ":", "2", "8", ":", "0", "0">>

\* "2019-03-05 12:28:00" with a full-width zero in the month
DateFullWidthMonth ==
  <<"2", "0", "1", "9", "-", "U+FF10", "3", "-", "0", "5", " ", "1", "2", ":", "2", "8", ":", "0", "0">>

CreatedAtValues ==
  { Absent, JStr(<<>>), JInt(20190305), JStr(Date2019), JStr(Date2021),
    JStr(DateSlashes), JStr(DateFeb30), JStr(DateFullWidth),
    JStr(DateFullWidthMonth) }

\* "1,234"
ReadsCommas == <<"1", ",", "2", "3", "4">>

\* "abc"
ReadsWord == <<"a", "b", "c">>

\* a superscript two
ReadsSuper == <<"U+00B2">>

\* "-5"
ReadsMinus == <<"-", "5">>

\* "12" in full-width digits
ReadsFullWidth == <<"U+FF11", "U+FF12">>

\* 7 written with one digit more than int() converts: zeros, then "7"
TooManyDigits == [i \in 1..IntMaxStrDigits |-> "0"] \o <<"7">>

ReadsValues ==
  { Absent, JInt(7), JBool(TRUE), JFloat(15), JStr(ReadsCommas),
    JStr(ReadsWord), JStr(ReadsSuper), JStr(ReadsMinus),
    JStr(ReadsFullWidth), JStr(TooManyDigits) }

\* the lines of the files that vary in what a line is and in created_at:
\* every created_at value on a record without a read count
DateLines ==
  {InvalidLine, ValueLine, DigitsLimitLine, TooDeepLine}
    \cup {ObjectLine(c, Absent, Absent) : c \in CreatedAtValues}

\* the lines of the files that vary in the read count: every read count on
\* a record of 2019, two on a record of 2021, a line that is not JSON and a
\* record whose created_at does not parse
ReadsLines ==
  {InvalidLine, ObjectLine(JStr(DateSlashes), Absent, Absent)}
    \cup {ObjectLine(JStr(Date2019), r, Absent) : r \in ReadsValues}
    \cup {ObjectLine(JStr(Date2021), r, Absent) :
            r \in {JInt(0 - 5), JStr(ReadsCommas)}}

\* the lines of the files the yearly passes are run on
WeiboLines == DateLines \cup ReadsLines

\* the lines of a file of one of the two kinds
CorpusLines(kind) == IF kind = "dates" THEN DateLines ELSE ReadsLines

\* the marker, a blank, a short name and more text
IpBeijingToday ==
  <<"U+53D1", "U+5E03", "U+4E8E", " ", "U+5317", "U+4EAC", " ", "t", "o", "d", "a", "y">>

\* an unrecognised place
IpMars ==
  <<"U+53D1", "U+5E03", "U+4E8E", " ", "M", "a", "r", "s">>

\* a short name without the marker
IpNoMarker ==
  <<"U+5317", "U+4EAC">>

\* no blank after the marker
IpBeijingTight ==
  <<"U+53D1", "U+5E03", "U+4E8E", "U+5317", "U+4EAC">>

\* a canonical name where a short name is expected
IpBeijingCity ==
  <<"U+53D1", "U+5E03", "U+4E8E", " ", "U+5317", "U+4EAC", "U+5E02">>

\* a blank and a tab after the marker
IpHenanTab ==
  <<"U+53D1", "U+5E03", "U+4E8E", " ", "\t", "U+6CB3", "U+5357">>

\* text before the marker, an ideographic space after it
IpHeilongjiang ==
  <<"U+6765", "U+81EA", " ", "U+53D1", "U+5E03", "U+4E8E", "U+3000", "U+9ED1", "U+9F99", "U+6C5F">>

\* two markers
IpHongKong ==
  <<"U+53D1", "U+5E03", "U+4E8E", " ", "U+4E2D", "U+56FD", "U+9999", "U+6E2F", " ", "U+53D1", "U+5E03", "U+4E8E", " ", "U+5317", "U+4EAC">>

\* the marker followed by the marker
IpMarkerTwice ==
  <<"U+53D1", "U+5E03", "U+4E8E", "U+53D1", "U+5E03", "U+4E8E", " ", "U+5317", "U+4EAC">>

\* nothing after the marker
IpMarkerOnly ==
  <<"U+53D1", "U+5E03", "U+4E8E", " ">>

\* a line feed after the marker
IpTianjinNewline ==
  <<"U+53D1", "U+5E03", "U+4E8E", "\n", "U+5929", "U+6D25">>

IpValues ==
  { Absent, JInt(5), JStr(IpBeijingToday), JStr(IpMars), JStr(IpNoMarker),
    JStr(IpBeijingTight), JStr(IpBeijingCity), JStr(IpHenanTab),
    JStr(IpHeilongjiang), JStr(IpHongKong), JStr(IpMarkerTwice),
    JStr(IpMarkerOnly), JStr(IpTianjinNewline) }

\* the lines of the files the location pass is run on
IpLines ==
  {InvalidLine, ValueLine, DigitsLimitLine, TooDeepLine}
    \cup {ObjectLine(Absent, Absent, l) : l \in IpValues}

\* an element of the video array
VideoItem(ct, liked, collected, comment, share) ==
  [isdict |-> TRUE, create_time |-> ct, liked_count |-> liked,
   collected_count |-> collected, comment_count |-> comment,
   share_count |-> share]

\* an element that is not an object
VideoValue ==
  [isdict |-> FALSE, create_time |-> Absent, liked_count |-> Absent,
   collected_count |-> Absent, comment_count |-> Absent, share_count |-> Absent]

\* "12"
Eng12 == <<"1", "2">>

\* " -7 "
EngPadded == <<" ", "-", "7", " ">>

\* "abc"
EngWord == <<"a", "b", "c">>

\* "1,234"
EngCommas == <<"1", ",", "2", "3", "4">>

\* "12" in full-width digits, and a line feed
EngFullWidth == <<"U+FF11", "U+FF12", "\n">>

\* the elements of the arrays the video pass is run on; in UTC 1560000000
\* is 8 June 2019, 1620000000 is 3 May 2021, 86400000.5 is 27 September
\* 1972 and 1546300000 is 31 December 2018, 23:46:40
VideoItems ==
  { VideoValue,
    VideoItem(JInt(1546300000), JInt(1), Absent, Absent, Absent),
    VideoItem(JInf, Absent, Absent, Absent, Absent),
    VideoItem(JInt(1560000000), JStr(EngFullWidth), Absent, Absent, Absent),
    VideoItem(JInt(1560000000), JStr(TooManyDigits), Absent, Absent, Absent),
    VideoItem(Absent, JInt(1), Absent, Absent, Absent),
    VideoItem(JStr(Eng12), Absent, Absent, Absent, Absent),
    VideoItem(JInt(1560000000), Absent, Absent, Absent, Absent),
    VideoItem(JInt(1560000000), JInt(3), JStr(Eng12), JFloat(25), JBool(TRUE)),
    VideoItem(JInt(1620000000), JInt(5), JInt(0), JInt(2), JInt(1)),
    VideoItem(JFloat(864000005), JStr(Eng12), Absent, JInt(4), Absent),
    VideoItem(JInt(1560000000), JInt(0 - 2), Absent, Absent, Absent),
    VideoItem(JInt(1560000000), Absent, Absent, JFloat(0 - 25), Absent),
    VideoItem(JInt(1620000000), Absent, JStr(EngPadded), Absent, Absent),
    VideoItem(JInt(1620000000), JStr(EngWord), Absent, Absent, Absent),
    VideoItem(JInt(1560000000), JInt(3), JInt(4), JNull, Absent),
    VideoItem(JInt(1560000000), JInt(3), JInt(4), JInt(6), JStr(EngCommas)) }

\* UTC, read from a tz file
UTC == Zone(0, FALSE)

\* the local time zones the video pass is run in: TZ=EST5, UTC and
\* Etc/GMT-8
TimeZones == {Zone(0 - 18000, TRUE), UTC, Zone(28800, FALSE)}

-----------------------------------------------------------------------------
(* The pipelines *)

douyinVars == <<data, d_stats, d_exc, d_ret, d_csv>>
weiboVars == <<b_stats, b_exc, b_csv, e_stats, e_exc, e_csv>>
ipVars == <<ip_counter, ip_exc, ip_out>>
permVars == <<p_src, p_input, p_perm, p_pc, p_outA, p_outB>>

NotReturned == [returned |-> FALSE, stats |-> EmptyTable]

\* every variable before anything has been read
Fresh ==
  /\ eof = FALSE
  /\ data = <<>> /\ d_stats = EmptyTable /\ d_exc = "none"
  /\ d_ret = NotReturned /\ d_csv = NoCsv
  /\ lines = <<>>
  /\ b_stats = EmptyTable /\ b_exc = "none" /\ b_csv = NoCsv
  /\ e_stats = EmptyTable /\ e_exc = "none" /\ e_csv = NoCsv
  /\ ip_counter = EmptyTable /\ ip_exc = "none" /\ ip_out = "none"
  /\ p_src = "none" /\ p_input = <<>> /\ p_perm = <<>> /\ p_pc = "start"
  /\ p_outA = Step("none", EmptyTable) /\ p_outB = Step("none", EmptyTable)

Init ==
  /\ prog \in {"douyin", "weibo", "ip"}
  /\ tz \in (IF prog = "douyin" THEN TimeZones ELSE {UTC})
  /\ corpus \in (IF prog = "weibo" THEN {"dates", "reads"} ELSE {"none"})
  /\ Fresh

\* process_data folds the next element of the array
ProcessDataStep(item) ==
  /\ prog = "douyin" /\ ~eof /\ d_exc = "none" /\ Len(data) < MaxItems
  /\ data' = Append(data, item)
  /\ LET r == ProcessItem(d_stats, item, tz)
     IN  d_stats' = r.stats /\ d_exc' = r.exc
  /\ UNCHANGED <<prog, tz, corpus, eof, d_ret, d_csv, lines, weiboVars, ipVars, permVars>>

\* the array is exhausted: process_data returns yearly_stats
ProcessDataReturn ==
  /\ prog = "douyin" /\ ~eof /\ d_exc = "none"
  /\ eof' = TRUE
  /\ d_ret' = [returned |-> TRUE, stats |-> d_stats]
  /\ UNCHANGED <<prog, tz, corpus, data, d_stats, d_exc, d_csv, lines, weiboVars, ipVars, permVars>>

\* main hands the returned table to save_to_csv
SaveToCsv ==
  /\ prog = "douyin" /\ d_ret.returned /\ ~d_csv.written
  /\ d_csv' = Csv(save_to_csv(d_ret.stats))
  /\ UNCHANGED <<prog, tz, corpus, eof, data, d_stats, d_exc, d_ret, lines, weiboVars, ipVars, permVars>>

\* the next line of the file goes through the line loop of each variant of
\* process_weibo_jsonl that is still running
WeiboReadLine(line) ==
  /\ prog = "weibo" /\ ~eof /\ Len(lines) < MaxLines
  /\ line \in CorpusLines(corpus)
  /\ lines' = Append(lines, line)
  /\ LET b == BasicLine(b_stats, line)
     IN  IF b_exc = "none" THEN b_stats' = b.stats /\ b_exc' = b.exc
         ELSE UNCHANGED <<b_stats, b_exc>>
  /\ LET e == ExtLine(e_stats, line)
     IN  IF e_exc = "none" THEN e_stats' = e.stats /\ e_exc' = e.exc
         ELSE UNCHANGED <<e_stats, e_exc>>
  /\ UNCHANGED <<prog, tz, corpus, eof, b_csv, e_csv, douyinVars, ipVars, permVars>>

\* `for line in f` comes upon bytes that are not UTF-8: the
\* UnicodeDecodeError is raised outside the try block and leaves each pass
\* still running
WeiboReadFails ==
  /\ prog = "weibo" /\ ~eof
  /\ eof' = TRUE
  /\ b_exc' = (IF b_exc = "none" THEN "UnicodeDecodeError" ELSE b_exc)
  /\ e_exc' = (IF e_exc = "none" THEN "UnicodeDecodeError" ELSE e_exc)
  /\ UNCHANGED <<prog, tz, corpus, lines, b_stats, b_csv, e_stats, e_csv,
                 douyinVars, ipVars, permVars>>

\* the file has no more lines: each pass still running returns its table
WeiboEof ==
  /\ prog = "weibo" /\ ~eof
  /\ eof' = TRUE
  /\ UNCHANGED <<prog, tz, corpus, lines, weiboVars, douyinVars, ipVars, permVars>>

\* main of statistics.py hands the returned table to save_weibo_csv
SaveWeiboCsvBasic ==
  /\ prog = "weibo" /\ eof /\ b_exc = "none" /\ ~b_csv.written
  /\ b_csv' = Csv(save_weibo_csv_basic(b_stats))
  /\ UNCHANGED <<prog, tz, corpus, eof, lines, b_stats, b_exc, e_stats, e_exc, e_csv,
                 douyinVars, ipVars, permVars>>

\* main of statistics_only_weibo.py hands the returned table to save_weibo_csv
SaveWeiboCsvExt ==
  /\ prog = "weibo" /\ eof /\ e_exc = "none" /\ ~e_csv.written
  /\ e_csv' = Csv(save_weibo_csv_ext(e_stats))
  /\ UNCHANGED <<prog, tz, corpus, eof, lines, b_stats, b_exc, b_csv, e_stats, e_exc,
                 douyinVars, ipVars, permVars>>

\* the location pass reads the next line of the file
IpReadLine(line) ==
  /\ prog = "ip" /\ ~eof /\ ip_exc = "none" /\ Len(lines) < MaxIpLines
  /\ lines' = Append(lines, line)
  /\ LET r == IpLine(ip_counter, line)
     IN  ip_counter' = r.stats /\ ip_exc' = r.exc
  /\ UNCHANGED <<prog, tz, corpus, eof, ip_out, douyinVars, weiboVars, permVars>>

\* `for line in f` comes upon bytes that are not UTF-8: the
\* UnicodeDecodeError is raised outside the try block
IpReadFails ==
  /\ prog = "ip" /\ ~eof /\ ip_exc = "none"
  /\ eof' = TRUE
  /\ ip_exc' = "UnicodeDecodeError"
  /\ UNCHANGED <<prog, tz, corpus, lines, ip_counter, ip_out, douyinVars,
                 weiboVars, permVars>>

\* the file has no more lines: `if not ip_counter` skips the map
IpEof ==
  /\ prog = "ip" /\ ~eof /\ ip_exc = "none"
  /\ eof' = TRUE
  /\ ip_out' = IF DOMAIN ip_counter = {} THEN "skipped" ELSE "rendered"
  /\ UNCHANGED <<prog, tz, corpus, lines, ip_counter, ip_exc, douyinVars, weiboVars, permVars>>

Next ==
  \/ \E item \in VideoItems : ProcessDataStep(item)
  \/ ProcessDataReturn
  \/ SaveToCsv
  \/ \E line \in WeiboLines : WeiboReadLine(line)
  \/ WeiboReadFails
  \/ WeiboEof
  \/ SaveWeiboCsvBasic
  \/ SaveWeiboCsvExt
  \/ \E line \in IpLines : IpReadLine(line)
  \/ IpReadFails
  \/ IpEof

Spec == Init /\ [][Next]_vars

-----------------------------------------------------------------------------
(* Reordering the input of an aggregation *)

\* the loop body of an aggregation
LoopBody(src, stats, x, zone) ==
  CASE src = "video" -> ProcessItem(stats, x, zone)
    [] src = "weibo_basic" -> BasicLine(stats, x)
    [] src = "weibo_ext" -> ExtLine(stats, x)

\* after one loop body: an exception leaves the loop, otherwise it goes on
RECURSIVE FoldFrom(_, _, _, _)
FoldNext(src, r, rest, zone) ==
  IF r.exc # "none" THEN r ELSE FoldFrom(src, r.stats, rest, zone)

\* the loop of an aggregation, from a table on
FoldFrom(src, stats, seq, zone) ==
  IF Len(seq) = 0 THEN Step("none", stats)
  ELSE FoldNext(src, LoopBody(src, stats, Head(seq), zone), Tail(seq), zone)

\* what the caller of an aggregation gets: the table, or the exception
Returned(r) == IF r.exc = "none" THEN r ELSE Step(r.exc, EmptyTable)

RunPass(src, seq, zone) == Returned(FoldFrom(src, EmptyTable, seq, zone))

\* the records reordered inputs are made of
PermVideoItems ==
  { VideoItem(JInt(1546300000), JInt(0 - 2), Absent, Absent, Absent),
    VideoItem(JInt(1560000000), JInt(3), JStr(Eng12), JFloat(25), JBool(TRUE)),
    VideoItem(JInt(1620000000), JInt(5), JInt(0), JInt(2), JInt(1)),
    VideoItem(JInt(1620000000), JStr(EngWord), Absent, Absent, Absent) }

PermWeiboLines ==
  { InvalidLine,
    ObjectLine(JStr(DateSlashes), Absent, Absent),
    ObjectLine(JStr(Date2019), Absent, Absent),
    ObjectLine(JStr(Date2019), JStr(ReadsCommas), Absent),
    ObjectLine(JStr(Date2021), JInt(0 - 5), Absent) }

PermRecords(src) == IF src = "video" THEN PermVideoItems ELSE PermWeiboLines

SeqsUpTo(S, n) == UNION {[1..k -> S] : k \in 0..n}

Reorderings(n) == {p \in [1..n -> 1..n] : \A i, j \in 1..n : p[i] = p[j] => i = j}

Permuted(seq, p) == [i \in 1..Len(seq) |-> seq[p[i]]]

InitPerm ==
  /\ prog = "reorder"
  /\ corpus = "none"
  /\ eof = FALSE
  /\ data = <<>> /\ d_stats = EmptyTable /\ d_exc = "none"
  /\ d_ret = NotReturned /\ d_csv = NoCsv
  /\ lines = <<>>
  /\ b_stats = EmptyTable /\ b_exc = "none" /\ b_csv = NoCsv
  /\ e_stats = EmptyTable /\ e_exc = "none" /\ e_csv = NoCsv
  /\ ip_counter = EmptyTable /\ ip_exc = "none" /\ ip_out = "none"
  /\ p_src \in {"video", "weibo_basic", "weibo_ext"}
  /\ tz \in (IF p_src = "video" THEN TimeZones ELSE {UTC})
  /\ p_input \in SeqsUpTo(PermRecords(p_src), MaxPerm)
  /\ p_perm = <<>> /\ p_pc = "start"
  /\ p_outA = Step("none", EmptyTable) /\ p_outB = Step("none", EmptyTable)

\* the aggregation is run on the input
RunOriginal ==
  /\ prog = "reorder" /\ p_pc = "start"
  /\ p_outA' = RunPass(p_src, p_input, tz)
  /\ p_pc' = "original"
  /\ UNCHANGED <<prog, tz, corpus, eof, lines, p_src, p_input, p_perm, p_outB,
                 douyinVars, weiboVars, ipVars>>

\* the aggregation is run on a reordering of the input
RunPermuted(p) ==
  /\ prog = "reorder" /\ p_pc = "original"
  /\ p_perm' = p
  /\ p_outB' = RunPass(p_src, Permuted(p_input, p), tz)
  /\ p_pc' = "both"
  /\ UNCHANGED <<prog, tz, corpus, eof, lines, p_src, p_input, p_outA,
                 douyinVars, weiboVars, ipVars>>

NextPerm ==
  \/ RunOriginal
  \/ \E p \in Reorderings(Len(p_input)) : RunPermuted(p)

SpecPerm == InitPerm /\ [][NextPerm]_vars

-----------------------------------------------------------------------------
(* What the properties below speak about *)

\* the sum of f[x] over the x in S
RECURSIVE SumOver(_, _)
SumOver(f, S) ==
  IF S = {} THEN 0
  ELSE LET x == CHOOSE z \in S : TRUE IN f[x] + SumOver(f, S \ {x})

Last(seq) == seq[Len(seq)]

\* the year of every line and of every element, in every time zone
WeiboYears == [line \in WeiboLines |-> WeiboYear(line)]

VideoYears ==
  [zone \in TimeZones |-> [item \in VideoItems |-> VideoYear(item, zone)]]

\* the year of each record of seq, or why it has none
YearOf(src, x) == IF src = "video" THEN VideoYears[tz][x] ELSE WeiboYears[x]

RECURSIVE YearLog(_, _)
YearLog(src, seq) ==
  IF Len(seq) = 0 THEN <<>>
  ELSE <<YearOf(src, Head(seq))>> \o YearLog(src, Tail(seq))

\* the positions of a log that hold year y
AtYear(log, y) == {i \in 1..Len(log) : log[i].exc = "none" /\ log[i].v = y}

\* the positions of a log that hold a year
WithYear(log) == {i \in 1..Len(log) : log[i].exc = "none"}

\* the years of a log
YearsOf(log) == {log[i].v : i \in WithYear(log)}

\* the post counts of the three kinds of table, by year
VideoPosts(tbl) == [y \in DOMAIN tbl |-> tbl[y].post_count]
BasicPosts(tbl) == [y \in DOMAIN tbl |-> tbl[y]]
ExtPosts(tbl) == [y \in DOMAIN tbl |-> tbl[y].post_count]

\* posts is the count, year by year, of the records of a log that have a
\* year
CountsRecords(posts, log) ==
  /\ DOMAIN posts = YearsOf(log)
  /\ \A y \in DOMAIN posts : posts[y] = Cardinality(AtYear(log, y))
  /\ SumOver(posts, DOMAIN posts) = Cardinality(WithYear(log))

\* a step that read one more line of the microblog file
ReadsALine == Len(lines') = Len(lines) + 1

\* a step that folded one more element of the video array
FoldsAnItem == Len(data') = Len(data) + 1

-----------------------------------------------------------------------------
(* C1 *)

\* the bad lines the claim lists
MalformedLine(line) == line.json = "invalid"
NotAnObject(line) == line.json = "value"
NoCreatedAt(line) ==
  line.json = "object" /\ line.rec.created_at \in {Absent, JStr(<<>>)}
UnparsableCreatedAt(line) ==
  /\ line.json = "object" /\ IsStr(line.rec.created_at)
  /\ Len(line.rec.created_at.s) > 0
  /\ strptime_year(line.rec.created_at.s).exc # "none"

\* a line the yearly passes are said to get past: a listed bad line, or a
\* record with a well-formed created_at
ListedOrGood(line) ==
  \/ MalformedLine(line) \/ NotAnObject(line) \/ NoCreatedAt(line)
  \/ UnparsableCreatedAt(line)
  \/ (line.json = "object" /\ WeiboYear(line).exc = "none")

\* a line the location pass is said to get past: malformed JSON, or JSON
\* of any kind
ListedOrDecoded(line) == line.json \in {"invalid", "value", "object"}

\* how a pass stands when no line it read has raised: it goes on or has
\* returned, or it was left by the UnicodeDecodeError of a file that is not
\* UTF-8, which is raised before any line is had
LoopFailures == {"none", "UnicodeDecodeError"}

\* C1: in every pass over the microblog file a bad line (malformed JSON, not
\* an object, created_at empty or missing, created_at not in the expected
\* format) is skipped: no line of these kinds raises out of the line loop
\* of a pass, whatever lines of these kinds were read
C1_BadLineNeverAborts ==
  /\ (prog = "weibo" /\ \A i \in 1..Len(lines) : ListedOrGood(lines[i]))
       => (b_exc \in LoopFailures /\ e_exc \in LoopFailures)
  /\ (prog = "ip" /\ \A i \in 1..Len(lines) : ListedOrDecoded(lines[i]))
       => ip_exc \in LoopFailures

-----------------------------------------------------------------------------
(* C2 *)

\* C2: after any prefix of the input has been folded in, the post counts of
\* the table add up to the number of records of the prefix that have a
\* year, and each such record is counted under its own year (video, basic
\* microblog and extended microblog)
C2_PostCountsMatchRecords ==
  /\ prog = "douyin" => CountsRecords(VideoPosts(d_stats), YearLog("video", data))
  /\ prog = "weibo" =>
       LET log == YearLog("weibo", lines)
       IN  /\ b_exc = "none" => CountsRecords(BasicPosts(b_stats), log)
           /\ CountsRecords(ExtPosts(e_stats), log)

\* three lines were read, one of them skipped, the others counted under
\* two different years
C2_Witness ==
  /\ prog = "weibo" /\ Len(lines) = 3 /\ b_exc = "none"
  /\ Cardinality(WithYear(YearLog("weibo", lines))) = 2
  /\ DOMAIN b_stats = {2019, 2021} /\ DOMAIN e_stats = {2019, 2021}

-----------------------------------------------------------------------------
(* C3 *)

\* C3: an aggregation run on a reordering of its input gives what it gives
\* on the input: both return the same table, or neither returns one
C3_OrderIndependent ==
  p_pc = "both" =>
    /\ (p_outA.exc = "none") <=> (p_outB.exc = "none")
    /\ p_outA.stats = p_outB.stats

\* a table with a year of several records, computed in two different orders
C3_Witness ==
  /\ p_pc = "both" /\ Len(p_input) = 3
  /\ p_input[1] # p_input[2] /\ Permuted(p_input, p_perm) # p_input
  /\ p_outA.exc = "none" /\ p_outB.exc = "none"
  /\ \E y \in DOMAIN p_outA.stats :
       p_src = "weibo_ext" /\ p_outA.stats[y].post_count >= 2
       /\ p_outA.stats[y].reads_count > 0

-----------------------------------------------------------------------------
(* C4 *)

\* the read count of a table for a year, 0 before the year is seen
ReadsIn(tbl, y) == IF y \in DOMAIN tbl THEN tbl[y].reads_count ELSE 0
PostsIn(tbl, y) == IF y \in DOMAIN tbl THEN tbl[y].post_count ELSE 0

\* what is left of a string once the thousands separators are removed
Remainder(v) == SelectSeq(v.s, LAMBDA c : c # ",")

\* the remainder is a number written in decimal digits
NumericRemainder(v) == Len(Remainder(v)) > 0 /\ AllIn(Remainder(v), DecDigits)

\* the amount the claim gives for a read-count field; an integer is what
\* isinstance(reads, int) accepts, so that True counts as the integer 1
ClaimedReads(v) ==
  CASE v.t = "absent" -> 3000
    [] v.t = "str" -> IF NumericRemainder(v) THEN DigitsToInt(Remainder(v)) ELSE 0
    [] v.t \in {"int", "bool"} -> v.n
    [] OTHER -> 0

\* C4: in the extended aggregation a record with a year adds to the reads
\* total of its year 3000 when it has no read count, the number left after
\* removing thousands separators when the read count is a numeric string,
\* 0 for any other string and any value that is neither integer nor string,
\* and the value itself for an integer; its post count goes up by 1 in
\* every case
C4_ReadsFallback ==
  [][(prog = "weibo" /\ ReadsALine /\ WeiboYear(Last(lines')).exc = "none") =>
       LET line == Last(lines')
           y == WeiboYear(line).v
       IN  /\ ReadsIn(e_stats', y) = ReadsIn(e_stats, y) + ClaimedReads(line.rec.reads_count)
           /\ PostsIn(e_stats', y) = PostsIn(e_stats, y) + 1]_vars

\* a record of 2019 with "1,234" and one whose read count is 7 written with
\* more digits than int() converts were folded: both are counted and the
\* second adds nothing to the reads
C4_Witness ==
  /\ prog = "weibo" /\ Len(lines) = 2
  /\ lines[1].rec.reads_count = JStr(ReadsCommas)
  /\ lines[2].rec.reads_count = JStr(TooManyDigits)
  /\ ClaimedReads(lines[2].rec.reads_count) = 7
  /\ DOMAIN e_stats = {2019}
  /\ e_stats[2019] = [post_count |-> 2, reads_count |-> 1234]

\* the remainder of a string has no more digits than int() converts
WithinDigitLimit(v) == v.t = "str" => Len(Remainder(v)) <= IntMaxStrDigits

\* the read counts of C4 add what the claim says whenever a numeric string
\* has no more digits than int() converts; the post count goes up by 1 in
\* every case
ReadsFallbackWithinLimit ==
  [][(prog = "weibo" /\ ReadsALine /\ WeiboYear(Last(lines')).exc = "none") =>
       LET line == Last(lines')
           y == WeiboYear(line).v
       IN  /\ WithinDigitLimit(line.rec.reads_count) =>
                ReadsIn(e_stats', y) = ReadsIn(e_stats, y) + ClaimedReads(line.rec.reads_count)
           /\ PostsIn(e_stats', y) = PostsIn(e_stats, y) + 1]_vars

\* records of 2019 without a read count, with "1,234" and with "abc" were
\* folded: 3000 + 1234 + 0
ReadsFallbackWitness ==
  /\ prog = "weibo" /\ Len(lines) = 3
  /\ {lines[i].rec.reads_count : i \in 1..3} = {Absent, JStr(ReadsCommas), JStr(ReadsWord)}
  /\ DOMAIN e_stats = {2019}
  /\ e_stats[2019] = [post_count |-> 3, reads_count |-> 4234]

-----------------------------------------------------------------------------
(* C5 *)

VideoTotals == {"total_likes", "total_collections", "total_comments", "total_shares"}

VideoColumns == {"post_count"} \cup VideoTotals

ExtColumns == {"post_count", "reads_count"}

\* every value of a table is a non-negative integer
NonNegative(tbl, columns) ==
  \A y \in DOMAIN tbl : \A c \in columns : tbl[y][c] \in Nat

\* no value of tbl is smaller in tbl2, and no year is lost
NotDecreased(tbl, tbl2, columns) ==
  /\ DOMAIN tbl \subseteq DOMAIN tbl2
  /\ \A y \in DOMAIN tbl : \A c \in columns : tbl2[y][c] >= tbl[y][c]

\* what the normaliser adds for the fields of a record; 0 where it raises
VideoContribution(item, key) ==
  LET c == py_int(dict_get(item, key, JInt(0))) IN IF c.exc = "none" THEN c.v ELSE 0

ReadsContribution(line) ==
  LET c == NormalizeReads(line.rec) IN IF c.exc = "none" THEN c.v ELSE 0

VideoFields == {"liked_count", "collected_count", "comment_count", "share_count"}

\* C5 as stated: every value of a yearly table is a non-negative integer in
\* every state reached while folding records, folding one more record
\* decreases no value, and the normaliser adds a negative amount for no
\* field value
C5_AlwaysNonNegative ==
  [][/\ prog' = "douyin" =>
          /\ NonNegative(d_stats', VideoColumns)
          /\ NotDecreased(d_stats, d_stats', VideoColumns)
          /\ FoldsAnItem => \A k \in VideoFields : VideoContribution(Last(data'), k) >= 0
     /\ prog' = "weibo" =>
          /\ NonNegative(e_stats', ExtColumns)
          /\ NotDecreased(e_stats, e_stats', ExtColumns)
          /\ ReadsALine => ReadsContribution(Last(lines')) >= 0]_vars

\* an element with a like count of -2 was folded: the likes of its year are
\* below zero, and process_data goes on
C5_Witness ==
  /\ prog = "douyin" /\ Len(data) = 1 /\ d_exc = "none"
  /\ data[1].liked_count = JInt(0 - 2)
  /\ VideoContribution(data[1], "liked_count") = 0 - 2
  /\ DOMAIN d_stats = {2019}
  /\ d_stats[2019].post_count = 1 /\ d_stats[2019].total_likes = 0 - 2

\* what is left of C5 in the code: the post counts are never negative and
\* never decrease, and a step whose record adds no negative amount lowers
\* no value of the table
NoLossWithoutNegativeAmount ==
  [][/\ prog' = "douyin" =>
          /\ NonNegative(d_stats', {"post_count"})
          /\ NotDecreased(d_stats, d_stats', {"post_count"})
          /\ (FoldsAnItem /\ \A k \in VideoFields : VideoContribution(Last(data'), k) >= 0)
               => NotDecreased(d_stats, d_stats', VideoColumns)
     /\ prog' = "weibo" =>
          /\ NonNegative(e_stats', {"post_count"})
          /\ NotDecreased(e_stats, e_stats', {"post_count"})
          /\ (ReadsALine /\ ReadsContribution(Last(lines')) >= 0)
               => NotDecreased(e_stats, e_stats', ExtColumns)]_vars

-----------------------------------------------------------------------------
(* C6 *)

\* every engagement field of the element is absent
NoEngagement(item) == \A k \in VideoFields : item[k] = Absent

\* some engagement field of the element is present and int() rejects it
NotCoercible(item) ==
  \E k \in VideoFields : item[k] # Absent /\ py_int(item[k]).exc # "none"

TotalIn(tbl, y, c) == IF y \in DOMAIN tbl THEN tbl[y][c] ELSE 0

\* C6: in the video aggregation an absent engagement field counts as 0 and
\* raises nothing; an engagement field that is present and not coercible to
\* an integer raises out of process_data, which then returns no table, and
\* no video CSV is written, however many records were folded before
C6_VideoFieldFailureAborts ==
  [][/\ (prog = "douyin" /\ FoldsAnItem /\ VideoYear(Last(data'), tz).exc = "none") =>
          LET item == Last(data')
              y == VideoYear(item, tz).v
          IN  /\ NoEngagement(item) =>
                   /\ d_exc' = "none"
                   /\ TotalIn(d_stats', y, "post_count") = TotalIn(d_stats, y, "post_count") + 1
                   /\ \A c \in VideoTotals : TotalIn(d_stats', y, c) = TotalIn(d_stats, y, c)
              /\ NotCoercible(item) => d_exc' # "none"
     /\ (prog' = "douyin" /\ d_exc' # "none") =>
          (d_ret' = NotReturned /\ d_csv' = NoCsv)]_vars

\* an element without engagement fields was folded and the next, with a
\* share count of "1,234", raised
C6_Witness ==
  /\ prog = "douyin" /\ Len(data) = 2 /\ d_exc = "ValueError"
  /\ data[2].share_count = JStr(EngCommas)
  /\ NoEngagement(data[1])
  /\ d_ret = NotReturned /\ d_csv = NoCsv

-----------------------------------------------------------------------------
(* C7 *)

\* the marker phrase stands at position i of s
MarkerAt(s, i) ==
  i + 2 <= Len(s) /\ s[i] = "U+53D1" /\ s[i + 1] = "U+5E03" /\ s[i + 2] = "U+4E8E"

HasMarker(s) == \E i \in 1..Len(s) : MarkerAt(s, i)

\* where the text after the first occurrence of the marker starts
AfterFirstMarker(s) ==
  3 + CHOOSE i \in 1..Len(s) : MarkerAt(s, i) /\ \A j \in 1..(i - 1) : ~MarkerAt(s, j)

\* the first run of non-white-space characters of s from position p on
RECURSIVE FirstRun(_, _)
FirstRun(s, p) ==
  IF p > Len(s) THEN <<>>
  ELSE IF s[p] \in WhiteSpace THEN FirstRun(s, p + 1)
  ELSE LET e == CHOOSE k \in p..Len(s) :
                  /\ \A j \in p..k : s[j] \notin WhiteSpace
                  /\ (k = Len(s) \/ s[k + 1] \in WhiteSpace)
       IN  SubSeq(s, p, e)

\* the 34 short names and what each is displayed as
ShortNames == DOMAIN CHINA_PROVINCES_MAP

CanonicalNames == {CHINA_PROVINCES_MAP[n] : n \in ShortNames}

\* the canonical names the claim has a line counted under: one, or none
ClaimedRegions(line) ==
  IF line.json = "object" /\ IsStr(line.rec.ip_location)
     /\ HasMarker(line.rec.ip_location.s)
  THEN LET s == line.rec.ip_location.s
           token == FirstRun(s, AfterFirstMarker(s))
       IN  {CHINA_PROVINCES_MAP[n] : n \in {m \in ShortNames : m = token}}
  ELSE {}

CountIn(counter, key) == IF key \in DOMAIN counter THEN counter[key] ELSE 0

\* C7: a record adds exactly 1 to the counter of canonical name C if and
\* only if its location field is a string, the marker occurs in it and the
\* first run of non-white-space characters after the first marker is a
\* recognised short name whose canonical name is C; otherwise no counter
\* changes
C7_LocationExtraction ==
  [][(prog = "ip" /\ ReadsALine) =>
       LET hit == ClaimedRegions(Last(lines'))
       IN  /\ Cardinality(hit) <= 1
           /\ \A c \in CanonicalNames \cup DOMAIN ip_counter' \cup DOMAIN ip_counter :
                CountIn(ip_counter', c) =
                  CountIn(ip_counter, c) + (IF c \in hit THEN 1 ELSE 0)]_vars

Beijing == <<"U+5317", "U+4EAC", "U+5E02">>

\* "<marker> Mars", a text without marker and "<marker> 北京 today" were
\* read: one record under 北京市 and nothing else
C7_Witness ==
  /\ prog = "ip" /\ Len(lines) = 3
  /\ lines[1].rec.ip_location = JStr(IpMars)
  /\ lines[2].rec.ip_location = JStr(IpNoMarker)
  /\ lines[3].rec.ip_location = JStr(IpBeijingToday)
  /\ DOMAIN ip_counter = {Beijing} /\ ip_counter[Beijing] = 1

-----------------------------------------------------------------------------
(* C8 *)

\* C8: every key of the region count map is one of the 34 canonical display
\* names, and its values add up to at most the number of records read
C8_RegionMapInvariant ==
  prog = "ip" =>
    /\ Cardinality(CanonicalNames) = 34
    /\ DOMAIN ip_counter \subseteq CanonicalNames
    /\ \A c \in DOMAIN ip_counter : ip_counter[c] \in Nat \ {0}
    /\ SumOver(ip_counter, DOMAIN ip_counter) <= Len(lines)

\* three records read, two of them counted, under two regions
C8_Witness ==
  /\ prog = "ip" /\ Len(lines) = 3
  /\ Cardinality(DOMAIN ip_counter) = 2
  /\ SumOver(ip_counter, DOMAIN ip_counter) = 2
  /\ \E i \in 1..3 : lines[i].rec.ip_location = JStr(IpBeijingCity)

-----------------------------------------------------------------------------
(* C9 *)

\* the rows are in strictly ascending order of their first column
Ascending(rows) == \A i \in 1..(Len(rows) - 1) : rows[i][1] < rows[i + 1][1]

\* one row for each year that has a record, none for any other year, each
\* with the number of records of its year
RowPerCountedYear(rows, log) ==
  /\ Len(rows) = Cardinality(YearsOf(log))
  /\ {rows[i][1] : i \in 1..Len(rows)} = YearsOf(log)
  /\ \A i \in 1..Len(rows) :
       rows[i][2] >= 1 /\ rows[i][2] = Cardinality(AtYear(log, rows[i][1]))

\* C9: a yearly CSV has exactly one row for each year with at least one
\* counted record, in strictly ascending order of year, and no row for a
\* year without records
C9_CsvRows ==
  /\ d_csv.written =>
       Ascending(d_csv.rows) /\ RowPerCountedYear(d_csv.rows, YearLog("video", data))
  /\ (b_csv.written \/ e_csv.written) =>
       LET log == YearLog("weibo", lines)
       IN  /\ b_csv.written => Ascending(b_csv.rows) /\ RowPerCountedYear(b_csv.rows, log)
           /\ e_csv.written => Ascending(e_csv.rows) /\ RowPerCountedYear(e_csv.rows, log)

\* a record of 2021, a malformed line and a record of 2019, in this order:
\* a row for 2019, then a row for 2021, none for 2020
C9_Witness ==
  /\ prog = "weibo" /\ Len(lines) = 3
  /\ WeiboYear(lines[1]) = Ok(2021) /\ MalformedLine(lines[2])
  /\ WeiboYear(lines[3]) = Ok(2019)
  /\ b_csv.written /\ b_csv.rows = <<<<2019, 1>>, <<2021, 1>>>>
  /\ e_csv.written /\ Len(e_csv.rows) = 2
  /\ e_csv.rows[1][1] = 2019 /\ e_csv.rows[2][1] = 2021

-----------------------------------------------------------------------------
(* C10 *)

\* C10: on every file on which the basic microblog aggregation returns, the
\* extended one returns too, with the same years and the same post count
\* for each year
C10_VariantsAgree ==
  (prog = "weibo" /\ b_exc = "none") =>
    /\ e_exc = "none"
    /\ DOMAIN e_stats = DOMAIN b_stats
    /\ \A y \in DOMAIN b_stats : e_stats[y].post_count = b_stats[y]

\* both passes returned on a file with a read count that isdigit() accepts
\* and int() rejects
C10_Witness ==
  /\ prog = "weibo" /\ eof /\ Len(lines) = 3 /\ b_exc = "none"
  /\ \E i \in 1..3 : lines[i].rec.reads_count = JStr(ReadsSuper)
  /\ \E i \in 1..3 : MalformedLine(lines[i])
  /\ b_stats = (2019 :> 2)
====
